---- MODULE Spec2Model ----
(***************************************************************************)
(* Model of python-gnumeric-example.py: the one-shot workflow that opens or *)
(* creates btcprices.gnumeric, ensures the header row, finds the first     *)
(* unused row, fetches a quote, writes and formats the row and saves.      *)
(* The process may be invoked again once it has ended; the file persists.  *)
(***************************************************************************)
EXTENDS Integers, Sequences, FiniteSets, TLC

\* ----- bounds ------------------------------------------------------------
MaxRows == 4       \* largest sheet.props.rows of a document
MaxCol == 2        \* last column index of a sheet
MaxSheets == 2     \* largest number of sheets of a pre-existing document
MaxRuns == 2       \* number of invocations of the script

\* ----- literals of the script ---------------------------------------------
Filename == "btcprices.gnumeric"
Title == "Bitcoin Prices"
LabelTime == "Timestamp (UTC)"
LabelPrice == "BTC Price (USD)"
PriceFormat == "$0,000"
GeneralFormat == "General"
DefaultSheetName == "Sheet1"
StartRow == 2
KeyCol == 1
PriceCol == 2
HeaderRow == 1

\* ----- values -------------------------------------------------------------
None == [kind |-> "none"]
Text(s) == [kind |-> "text", v |-> s]
Float(f) == [kind |-> "float", mant |-> f.mant, dec |-> f.dec]
Unbound == -1
NoWb == [kind |-> "nowb"]
NoData == [kind |-> "nodata"]
NoFile == [kind |-> "nofile"]
Missing == [kind |-> "missing"]

filename_to_uri(f) == "file:///" \o f

Uris == {filename_to_uri(Filename)}

Cols == 0..MaxCol
Pos(rows) == Cols \X (0..(rows - 1))

\* Gnm.Range().init(start_col, start_row, end_col, end_row), inclusive
Range(c1, r1, c2, r2) == (c1..c2) \X (r1..r2)

DefaultStyle == [bold |-> FALSE, format |-> GeneralFormat]
\* Gnm.Style.new() followed by set_font_bold(1): only the bold element is set
BoldStyle == [bold |-> TRUE]
\* Gnm.Style.new() followed by set_format_text("$0,000")
FormatStyle == [format |-> PriceFormat]

\* ----- sheet operations (the Gnm calls the script makes) -------------------
cell_get_value(sheet, c, r) == sheet.cells[<<c, r>>]

cell_set_text(sheet, c, r, s) ==
    [sheet EXCEPT !.cells[<<c, r>>] = Text(s)]

cell_set_value(sheet, c, r, val) ==
    [sheet EXCEPT !.cells[<<c, r>>] = val]

\* a partial style overrides only the elements it sets
Merge(old, st) ==
    [bold |-> IF "bold" \in DOMAIN st THEN st.bold ELSE old.bold,
     format |-> IF "format" \in DOMAIN st THEN st.format ELSE old.format]

apply_style(sheet, rng, st) ==
    [sheet EXCEPT !.styles = [p \in DOMAIN sheet.styles |->
                                IF p \in rng THEN Merge(sheet.styles[p], st)
                                ELSE sheet.styles[p]]]

EmptySheet(name, rows) ==
    [name |-> name, rows |-> rows,
     cells |-> [p \in Pos(rows) |-> None],
     styles |-> [p \in Pos(rows) |-> DefaultStyle]]

\* Gnm.Workbook.new_with_sheets(1): empty sheets of the default size
new_with_sheets(n) ==
    [uri |-> "", sheets |-> [i \in 1..n |-> EmptySheet(DefaultSheetName, MaxRows)]]

\* ----- wb_open --------------------------------------------------------------
isfile(d, filename) == d[filename_to_uri(filename)] # NoFile

\* wb_open without the assignment to wb.props.uri
wb_open_nouri(d, filename, loaded) ==
    LET uri == filename_to_uri(filename) IN
    IF isfile(d, filename)
    THEN IF loaded THEN [uri |-> uri, sheets |-> d[uri].sheets] ELSE NoWb
    ELSE new_with_sheets(1)

\* loaded: whether Gnm.WorkbookView.new_from_uri produced a view; when it did
\* not, wbv is None and wbv.props raises (NoWb stands for the raised error)
wb_open(d, filename, loaded) ==
    LET uri == filename_to_uri(filename) IN
    IF isfile(d, filename)
    THEN IF loaded THEN [uri |-> uri, sheets |-> d[uri].sheets] ELSE NoWb
    ELSE [new_with_sheets(1) EXCEPT !.uri = uri]

\* ----- sheet name and title row ---------------------------------------------
\* the name assigned without the comparison
NameAssigned_always(sheet) == TRUE

NameAssigned(sheet) == sheet.name # Title

SetName(sheet) ==
    IF NameAssigned(sheet) THEN [sheet EXCEPT !.name = Title] ELSE sheet

\* the title row keyed on C2 instead of B2
EnsureHeader_keyC2(sheet) ==
    IF cell_get_value(sheet, PriceCol, HeaderRow) = None
    THEN apply_style(
            cell_set_text(
               cell_set_text(sheet, KeyCol, HeaderRow, LabelTime),
               PriceCol, HeaderRow, LabelPrice),
            Range(KeyCol, HeaderRow, PriceCol, HeaderRow), BoldStyle)
    ELSE sheet

EnsureHeader(sheet) ==
    IF cell_get_value(sheet, KeyCol, HeaderRow) = None
    THEN apply_style(
            cell_set_text(
               cell_set_text(sheet, KeyCol, HeaderRow, LabelTime),
               PriceCol, HeaderRow, LabelPrice),
            Range(KeyCol, HeaderRow, PriceCol, HeaderRow), BoldStyle)
    ELSE sheet

\* ----- first unused row ------------------------------------------------------
\* for row in range(2, sheet.props.rows): if ... is None: break
\* last is the value row holds when the range is exhausted
RECURSIVE ForLoop(_, _, _)
ForLoop(sheet, r, last) ==
    IF r >= sheet.rows THEN last
    ELSE IF cell_get_value(sheet, KeyCol, r) = None THEN r
    ELSE ForLoop(sheet, r + 1, r)

FindRow(sheet) == ForLoop(sheet, StartRow, Unbound)

\* ----- timestamp --------------------------------------------------------------
Digit == <<"0", "1", "2", "3", "4", "5", "6", "7", "8", "9">>
D2(n) == Digit[(n \div 10) + 1] \o Digit[(n % 10) + 1]
D4(n) == D2(n \div 100) \o D2(n % 100)

\* dateutil.parser.parse: a datetime carrying the zone of the input, or an error
parse(s) ==
    IF s.wf
    THEN [ok |-> TRUE,
          dt |-> [year |-> s.year, month |-> s.month, day |-> s.day,
                  hour |-> s.hour, minute |-> s.minute, second |-> s.second,
                  tzinfo |-> s.tz]]
    ELSE [ok |-> FALSE]

\* tdate.strftime("%Y-%m-%d %H:%M:%S"): the zone is not printed
strftime(dt) ==
    D4(dt.year) \o "-" \o D2(dt.month) \o "-" \o D2(dt.day) \o " " \o
    D2(dt.hour) \o ":" \o D2(dt.minute) \o ":" \o D2(dt.second)

\* ----- price -------------------------------------------------------------------
Locales == {[name |-> "C", thousands_sep |-> "", decimal_point |-> "."],
            [name |-> "en_US", thousands_sep |-> ",", decimal_point |-> "."],
            [name |-> "de_DE", thousands_sep |-> ".", decimal_point |-> ","]}

\* str.replace on a string held as a sequence of characters; to is "" or one character
RECURSIVE replace(_, _, _)
replace(s, from, to) ==
    IF s = <<>> THEN <<>>
    ELSE (IF Head(s) = from THEN (IF to = "" THEN <<>> ELSE <<to>>) ELSE <<Head(s)>>)
         \o replace(Tail(s), from, to)

DigitVal(c) == CHOOSE i \in 0..9 : Digit[i + 1] = c
IsDigit(c) == \E i \in 0..9 : Digit[i + 1] = c

RECURSIVE Mantissa(_, _)
Mantissa(s, acc) ==
    IF s = <<>> THEN acc
    ELSE IF Head(s) = "." THEN Mantissa(Tail(s), acc)
    ELSE Mantissa(Tail(s), 10 * acc + DigitVal(Head(s)))

DotIndexes(s) == {i \in 1..Len(s) : s[i] = "."}

RECURSIVE Normal(_)
Normal(f) ==
    IF f.dec > 0 /\ f.mant % 10 = 0
    THEN Normal([mant |-> f.mant \div 10, dec |-> f.dec - 1])
    ELSE f

\* float(string) on digits and at most one ".": the number mant / 10^dec
float(s) ==
    IF /\ \A i \in 1..Len(s) : IsDigit(s[i]) \/ s[i] = "."
       /\ Cardinality(DotIndexes(s)) <= 1
       /\ \E i \in 1..Len(s) : IsDigit(s[i])
    THEN [ok |-> TRUE,
          f |-> Normal([mant |-> Mantissa(s, 0),
                        dec |-> IF DotIndexes(s) = {} THEN 0
                                ELSE Len(s) - (CHOOSE i \in DotIndexes(s) : TRUE)])]
    ELSE [ok |-> FALSE]

\* locale.atof under the locale set by setlocale(LC_NUMERIC, '')
atof(string, loc) ==
    LET s1 == IF loc.thousands_sep # "" THEN replace(string, loc.thousands_sep, "")
              ELSE string
        s2 == IF loc.decimal_point # "" THEN replace(s1, loc.decimal_point, ".")
              ELSE s1
    IN float(s2)

\* ----- writing and formatting the row -------------------------------------------
\* the price errors swallowed: the row is left with its timestamp alone
WriteRow_swallow(sheet, r, d, loc) ==
    IF d.updated = Missing THEN [sheet |-> sheet, err |-> "KeyError"]
    ELSE IF ~parse(d.updated).ok THEN [sheet |-> sheet, err |-> "ValueError"]
    ELSE IF r = Unbound THEN [sheet |-> sheet, err |-> "UnboundLocalError"]
    ELSE LET s1 == cell_set_text(sheet, KeyCol, r, strftime(parse(d.updated).dt)) IN
         IF d.rate = Missing \/ ~atof(d.rate, loc).ok THEN [sheet |-> s1, err |-> "none"]
         ELSE [sheet |-> cell_set_value(s1, PriceCol, r, Float(atof(d.rate, loc).f)),
               err |-> "none"]

\* lines 152-167 in order; the first statement that raises ends the step and keeps
\* what the earlier statements wrote
WriteRow(sheet, r, d, loc) ==
    IF d.updated = Missing THEN [sheet |-> sheet, err |-> "KeyError"]
    ELSE IF ~parse(d.updated).ok THEN [sheet |-> sheet, err |-> "ValueError"]
    ELSE IF r = Unbound THEN [sheet |-> sheet, err |-> "UnboundLocalError"]
    ELSE LET s1 == cell_set_text(sheet, KeyCol, r, strftime(parse(d.updated).dt)) IN
         IF d.rate = Missing THEN [sheet |-> s1, err |-> "KeyError"]
         ELSE IF ~atof(d.rate, loc).ok THEN [sheet |-> s1, err |-> "ValueError"]
         ELSE [sheet |-> cell_set_value(s1, PriceCol, r, Float(atof(d.rate, loc).f)),
               err |-> "none"]

\* the format applied to the whole row B..C
FormatRow_wide(sheet, r) == apply_style(sheet, Range(KeyCol, r, PriceCol, r), FormatStyle)

FormatRow(sheet, r) == apply_style(sheet, Range(PriceCol, r, PriceCol, r), FormatStyle)

\* ----- wb_save --------------------------------------------------------------------
\* a save that removes the old file before it fails
save_as_truncating(d, w, uri, saved) ==
    IF uri \in DOMAIN d
    THEN [d EXCEPT ![uri] = IF saved THEN [kind |-> "file", sheets |-> w.sheets]
                            ELSE NoFile]
    ELSE d

\* wbv.save_as(fs, uri, cc): saved is what it returns; the file is replaced only
\* by a save that succeeds
save_as(d, w, uri, saved) ==
    IF saved /\ uri \in DOMAIN d
    THEN [d EXCEPT ![uri] = [kind |-> "file", sheets |-> w.sheets]]
    ELSE d

\* the test of save_as inverted
wb_save_inverted(saved) == IF saved THEN "IOError" ELSE "none"

\* the error wb_save raises, "none" when it returns
wb_save(saved) == IF ~saved THEN "IOError" ELSE "none"

\* ----- inputs -----------------------------------------------------------------------
Stamp(h) == [wf |-> TRUE, year |-> 2021, month |-> 6, day |-> 1,
             hour |-> h, minute |-> 23, second |-> 5, tz |-> "UTC"]
Updateds == {Missing, [wf |-> FALSE], Stamp(0), Stamp(14)}
Rates == {Missing,
          <<"1", ",", "2", "3", "4", ".", "5", "0">>,
          <<"9", "8", ".", "7">>}
Responses == {[kind |-> "URLError"], [kind |-> "badjson"]} \cup
             {[kind |-> "json", updated |-> u, rate |-> r] : u \in Updateds, r \in Rates}

OldText == Text("old")
OldPrice == Float([mant |-> 7, dec |-> 0])

\* a document written earlier: column 1 holds a value in the rows of filled, the
\* price cell of a filled data row holds a formatted number; a Gnumeric sheet
\* has rows below the title row, so rows is at least 3
OldSheet(name, rows, filled, head2) ==
    [name |-> name, rows |-> rows,
     cells |-> [p \in Pos(rows) |->
                  IF p[1] = KeyCol /\ p[2] \in filled THEN OldText
                  ELSE IF p[1] = PriceCol /\ p[2] = HeaderRow /\ head2 THEN OldText
                  ELSE IF p[1] = PriceCol /\ p[2] >= StartRow /\ p[2] \in filled
                       THEN OldPrice
                  ELSE None],
     styles |-> [p \in Pos(rows) |->
                  IF p[1] \in {KeyCol, PriceCol} /\ p[2] = HeaderRow /\ HeaderRow \in filled
                  THEN [bold |-> TRUE, format |-> GeneralFormat]
                  ELSE IF p[1] = PriceCol /\ p[2] >= StartRow /\ p[2] \in filled
                       THEN [bold |-> FALSE, format |-> PriceFormat]
                  ELSE DefaultStyle]]

OtherSheet == EmptySheet("Other", StartRow)

OldFiles ==
    {[kind |-> "file",
      sheets |-> [i \in 1..n |-> IF i = 1 THEN OldSheet(name, rows, filled, head2)
                                 ELSE OtherSheet]] :
        n \in 1..MaxSheets, name \in {DefaultSheetName, Title},
        rows \in (StartRow + 1)..MaxRows, filled \in SUBSET (HeaderRow..(MaxRows - 1)),
        head2 \in BOOLEAN}

\* ----- state ---------------------------------------------------------------------------
VARIABLES
    disk,        \* the file system: what is stored at each uri
    cc, ioc,     \* the globals gnm_init sets
    wb,          \* main's workbook, NoWb before wb_open and after the cleanup
    row,         \* main's loop variable
    data,        \* the parsed quote
    pc,          \* position of main
    err,         \* the error that ended the run, "none" otherwise
    trace,       \* the positions this run went through, in order
    startDisk,   \* the file system when this run started
    saveResult,  \* what save_as returned in this run: "none", "ok" or "fail"
    nameWrites,  \* assignments to sheet.props.name in this run
    runs         \* invocations so far

vars == <<disk, cc, ioc, wb, row, data, pc, err, trace, startDisk, saveResult,
          nameWrites, runs>>

Order == <<"Start", "Located", "SchemaEnsured", "RowFound", "Fetched", "Written",
           "Formatted", "Saved", "End">>

Sheet0 == wb.sheets[1]
WithSheet0(s) == [wb EXCEPT !.sheets[1] = s]

Goto(p) == /\ pc' = p
           /\ trace' = Append(trace, p)
           /\ err' = "none"

\* the error caught and the step tried again
Raise_retry(e) == /\ pc' = pc
                  /\ trace' = Append(trace, pc)
                  /\ err' = e

Raise(e) == /\ pc' = "Failed"
            /\ trace' = Append(trace, "Failed")
            /\ err' = e

Init ==
    /\ disk \in [Uris -> {NoFile} \cup OldFiles]
    /\ cc = FALSE /\ ioc = FALSE
    /\ wb = NoWb
    /\ row = Unbound
    /\ data = NoData
    /\ pc = "Start"
    /\ err = "none"
    /\ trace = <<"Start">>
    /\ startDisk = disk
    /\ saveResult = "none"
    /\ nameWrites = 0
    /\ runs = 1

\* lines 88-91: gnm_init() and wb_open
Locate ==
    /\ pc = "Start"
    /\ cc' = TRUE /\ ioc' = TRUE
    /\ \E loaded \in BOOLEAN :
         /\ wb' = wb_open(disk, Filename, loaded)
         /\ IF wb' = NoWb THEN Raise("AttributeError") ELSE Goto("Located")
    /\ UNCHANGED <<disk, row, data, startDisk, saveResult, nameWrites, runs>>

\* lines 93-113: the first sheet, its name, the title row
SchemaEnsure ==
    /\ pc = "Located"
    /\ nameWrites' = nameWrites + (IF NameAssigned(Sheet0) THEN 1 ELSE 0)
    /\ wb' = WithSheet0(EnsureHeader(SetName(Sheet0)))
    /\ Goto("SchemaEnsured")
    /\ UNCHANGED <<disk, cc, ioc, row, data, startDisk, saveResult, runs>>

\* lines 121-124
RowFind ==
    /\ pc = "SchemaEnsured"
    /\ row' = FindRow(Sheet0)
    /\ Goto("RowFound")
    /\ UNCHANGED <<disk, cc, ioc, wb, data, startDisk, saveResult, nameWrites, runs>>

\* lines 134-142: one GET and json.loads
Fetch ==
    /\ pc = "RowFound"
    /\ \E resp \in Responses :
         IF resp.kind = "URLError" THEN Raise("URLError") /\ data' = data
         ELSE IF resp.kind = "badjson" THEN Raise("ValueError") /\ data' = data
         ELSE Goto("Fetched") /\ data' = [updated |-> resp.updated, rate |-> resp.rate]
    /\ UNCHANGED <<disk, cc, ioc, wb, row, startDisk, saveResult, nameWrites, runs>>

\* lines 149-167
Write ==
    /\ pc = "Fetched"
    /\ \E loc \in Locales :
         LET res == WriteRow(Sheet0, row, data, loc) IN
         /\ wb' = WithSheet0(res.sheet)
         /\ IF res.err = "none" THEN Goto("Written") ELSE Raise(res.err)
    /\ UNCHANGED <<disk, cc, ioc, row, data, startDisk, saveResult, nameWrites, runs>>

\* lines 170-175
Format ==
    /\ pc = "Written"
    /\ wb' = WithSheet0(FormatRow(Sheet0, row))
    /\ Goto("Formatted")
    /\ UNCHANGED <<disk, cc, ioc, row, data, startDisk, saveResult, nameWrites, runs>>

\* line 180: wb_save(wb), lines 70-84
Save ==
    /\ pc = "Formatted"
    /\ \E saved \in BOOLEAN :
         /\ disk' = save_as(disk, wb, wb.uri, saved)
         /\ saveResult' = IF saved THEN "ok" ELSE "fail"
         /\ IF wb_save(saved) = "none" THEN Goto("Saved") ELSE Raise(wb_save(saved))
    /\ UNCHANGED <<cc, ioc, wb, row, data, startDisk, nameWrites, runs>>

\* lines 182-186: wb = None; the assignment to ioc binds a local of main; quit()
Quit ==
    /\ pc = "Saved"
    /\ wb' = NoWb
    /\ Goto("End")
    /\ UNCHANGED <<disk, cc, ioc, row, data, startDisk, saveResult, nameWrites, runs>>

\* lines 188-191: the script is run again, as a new process, on the same file system
NewRun ==
    /\ pc \in {"End", "Failed"}
    /\ runs < MaxRuns
    /\ runs' = runs + 1
    /\ cc' = FALSE /\ ioc' = FALSE
    /\ wb' = NoWb
    /\ row' = Unbound
    /\ data' = NoData
    /\ pc' = "Start"
    /\ err' = "none"
    /\ trace' = <<"Start">>
    /\ startDisk' = disk
    /\ saveResult' = "none"
    /\ nameWrites' = 0
    /\ UNCHANGED disk

Next == \/ Locate \/ SchemaEnsure \/ RowFind \/ Fetch \/ Write \/ Format
        \/ Save \/ Quit \/ NewRun

Spec == Init /\ [][Next]_vars

\* ----- what the claims speak of --------------------------------------------------
TargetUri == filename_to_uri(Filename)
Visited == {trace[i] : i \in DOMAIN trace}
StartFile == startDisk[TargetUri]
\* sheet 0 as the run found it: the stored one, or the new one when no file exists
RunStartSheet == IF StartFile = NoFile THEN new_with_sheets(1).sheets[1]
                 ELSE StartFile.sheets[1]
DataRows(sheet) == StartRow..(sheet.rows - 1)
\* N: the number of filled rows 2..2+N-1 (row 2+N, if it exists, is empty)
LeadingFilled(sheet) ==
    Cardinality({r \in DataRows(sheet) :
                   \A q \in StartRow..r : cell_get_value(sheet, KeyCol, q) # None})
EmptyRows(sheet) == {r \in DataRows(sheet) : cell_get_value(sheet, KeyCol, r) = None}
BoldCells(sheet) == {p \in DOMAIN sheet.styles : sheet.styles[p].bold}
PriceCells(sheet) == {p \in DOMAIN sheet.styles : sheet.styles[p].format = PriceFormat}
RowOf(sheet, r) == [c \in {KeyCol, PriceCol} |->
                      <<sheet.cells[<<c, r>>], sheet.styles[<<c, r>>]>>]
HeaderOnly(sheet) ==
    /\ cell_get_value(sheet, KeyCol, HeaderRow) # None
    /\ \A p \in DOMAIN sheet.cells : p[2] >= StartRow => sheet.cells[p] = None
    /\ PriceCells(sheet) = {}
IsPrefix(t, u) == Len(t) <= Len(u) /\ \A i \in 1..Len(t) : t[i] = u[i]
Front(t) == SubSeq(t, 1, Len(t) - 1)

\* C1: once the scan has run, row is 2+N, N being the number of filled rows
\* 2..2+N-1 of column 1, also when they reach the last row and when the range is empty.
C1_RowEnd ==
    pc = "RowFound" => row = StartRow + LeadingFilled(Sheet0)

\* C2: the schema step on a sheet whose B2 holds a value changes no cell and no
\* style, whatever C2 holds, and applying it again to its result changes nothing.
C2_SchemaIdempotent ==
    [][(pc = "Located" /\ pc' = "SchemaEnsured") =>
         /\ (cell_get_value(Sheet0, KeyCol, HeaderRow) # None =>
               /\ wb'.sheets[1].cells = Sheet0.cells
               /\ wb'.sheets[1].styles = Sheet0.styles)
         /\ EnsureHeader(SetName(wb'.sheets[1])) = wb'.sheets[1]
         /\ ~NameAssigned(wb'.sheets[1])]_vars

C2_Witness ==
    /\ pc = "SchemaEnsured"
    /\ cell_get_value(Sheet0, KeyCol, HeaderRow) = OldText
    /\ cell_get_value(Sheet0, PriceCol, HeaderRow) = None

\* C3: a save that reports failure ends the run Failed with IOError, never Saved
\* or End; a save that reports success raises nothing.
C3_SaveFailureRaises ==
    /\ saveResult = "fail" =>
         /\ pc = "Failed" /\ err = "IOError"
         /\ "Saved" \notin Visited /\ "End" \notin Visited
    /\ saveResult = "ok" => err = "none" /\ pc \in {"Saved", "End"}

C3_Witness == saveResult = "fail" /\ pc = "Failed" /\ err = "IOError"

\* C4: with no file at the target path the run has, from the schema step on, a
\* document of exactly one sheet, its uri the target, sheet 0 named "Bitcoin
\* Prices", the two labels in B2 and C2 and bold on exactly B2:C2; a successful
\* save stores that document.
C4_NewDocument ==
    (StartFile = NoFile /\ "SchemaEnsured" \in Visited) =>
        /\ wb # NoWb =>
             /\ Len(wb.sheets) = 1
             /\ wb.uri = "file:///btcprices.gnumeric"
             /\ Sheet0.name = "Bitcoin Prices"
             /\ cell_get_value(Sheet0, 1, 1) = Text("Timestamp (UTC)")
             /\ cell_get_value(Sheet0, 2, 1) = Text("BTC Price (USD)")
             /\ BoldCells(Sheet0) = {<<1, 1>>, <<2, 1>>}
        /\ pc \in {"Saved", "End"} =>
             /\ disk[TargetUri] # NoFile
             /\ Len(disk[TargetUri].sheets) = 1
             /\ disk[TargetUri].sheets[1].name = "Bitcoin Prices"
             /\ BoldCells(disk[TargetUri].sheets[1]) = {<<1, 1>>, <<2, 1>>}

C4_Witness ==
    /\ StartFile = NoFile /\ pc = "End"
    /\ disk[TargetUri] # NoFile
    /\ disk[TargetUri].sheets[1].name = Title

\* C5: the positions of a run are a prefix of Start, Located, SchemaEnsured,
\* RowFound, Fetched, Written, Formatted, Saved, End, or such a prefix that stops
\* before End followed by Failed alone; nothing follows End or Failed in the run.
C5_LinearOrder ==
    /\ pc = trace[Len(trace)]
    /\ \/ IsPrefix(trace, Order)
       \/ /\ pc = "Failed"
          /\ Len(trace) >= 2
          /\ IsPrefix(Front(trace), Order)
          /\ "End" \notin {trace[i] : i \in 1..(Len(trace) - 1)}

C5_Witness == pc = "End" /\ trace = Order

\* C6: a run that starts from a stored sheet holding the header alone and saves
\* has stored one data row, at row 2: the reformatted timestamp as text in B3, the
\* parsed price as a number in C3, the price format on C3 alone, nothing below.
C6_FirstDataRow ==
    (StartFile # NoFile /\ HeaderOnly(RunStartSheet) /\ pc \in {"Saved", "End"}) =>
        LET s == disk[TargetUri].sheets[1] IN
        /\ row = 2
        /\ s.cells[<<1, 2>>] = Text(strftime(parse(data.updated).dt))
        /\ data.updated = Stamp(14) => s.cells[<<1, 2>>] = Text("2021-06-01 14:23:05")
        /\ data.updated = Stamp(0) => s.cells[<<1, 2>>] = Text("2021-06-01 00:23:05")
        /\ s.cells[<<2, 2>>].kind = "float"
        /\ \E loc \in Locales : /\ atof(data.rate, loc).ok
                                /\ s.cells[<<2, 2>>] = Float(atof(data.rate, loc).f)
        /\ PriceCells(s) = {<<2, 2>>}
        /\ \A p \in DOMAIN s.cells :
              p[2] >= StartRow /\ p \notin {<<1, 2>>, <<2, 2>>} =>
                 s.cells[p] = None /\ s.styles[p] = RunStartSheet.styles[p]

C6_Witness ==
    /\ StartFile # NoFile /\ HeaderOnly(RunStartSheet) /\ pc = "End"
    /\ disk[TargetUri].sheets[1].cells[<<1, 2>>] = Text("2021-06-01 14:23:05")
    /\ disk[TargetUri].sheets[1].cells[<<2, 2>>] = Float([mant |-> 12345, dec |-> 1])

C8_SheetName ==
    /\ "SchemaEnsured" \notin Visited => nameWrites = 0
    /\ "SchemaEnsured" \in Visited =>
         /\ nameWrites = (IF RunStartSheet.name # Title THEN 1 ELSE 0)
         /\ wb # NoWb =>
              /\ Sheet0.name = Title
              /\ StartFile # NoFile => Tail(wb.sheets) = Tail(StartFile.sheets)
              /\ StartFile = NoFile => Tail(wb.sheets) = <<>>
    /\ (StartFile # NoFile /\ disk[TargetUri] # NoFile) =>
         Tail(disk[TargetUri].sheets) = Tail(StartFile.sheets)

C8_Witness ==
    /\ pc = "SchemaEnsured" /\ nameWrites = 0
    /\ Len(wb.sheets) >= 2 /\ Sheet0.name = Title

\* C9: a run leaves every data row other than the first row whose column 1 was
\* empty as it found it, in memory and stored, in particular every data row that
\* held a value in column 1, also when all rows up to the last are filled.
C9_AppendOnly ==
    \A r \in DataRows(RunStartSheet) :
        (r \notin EmptyRows(RunStartSheet) \/ \E q \in EmptyRows(RunStartSheet) : q < r) =>
            /\ wb # NoWb => RowOf(Sheet0, r) = RowOf(RunStartSheet, r)
            /\ (StartFile # NoFile) =>
                  RowOf(disk[TargetUri].sheets[1], r) = RowOf(RunStartSheet, r)

\* C10: the save is invoked only after the fetch and with both cells of the row
\* written; a run that ends before the save leaves the file system as it was, and
\* no stored data row holds a timestamp without a price.
C10_SaveAfterCompleteRow ==
    /\ saveResult # "none" =>
         /\ {"Fetched", "Written", "Formatted"} \subseteq Visited
         /\ data # NoData /\ row # Unbound
         /\ wb # NoWb =>
              /\ cell_get_value(Sheet0, KeyCol, row).kind = "text"
              /\ cell_get_value(Sheet0, PriceCol, row).kind = "float"
    /\ saveResult = "none" => disk = startDisk
    /\ disk[TargetUri] # NoFile =>
         \A r \in DataRows(disk[TargetUri].sheets[1]) :
            disk[TargetUri].sheets[1].cells[<<KeyCol, r>>] # None =>
               disk[TargetUri].sheets[1].cells[<<PriceCol, r>>] # None

C10_Witness ==
    /\ pc = "Failed" /\ saveResult = "none" /\ "Fetched" \in Visited
    /\ row # Unbound
    /\ cell_get_value(Sheet0, KeyCol, row).kind = "text"
    /\ cell_get_value(Sheet0, PriceCol, row) = None
    /\ cell_get_value(RunStartSheet, KeyCol, row) = None

====
